---- MODULE Spec2Model ----
(***************************************************************************)
(* Model of the whiteboard controller of canvas-collab                     *)
(* (src/components/whiteboard/Whiteboard.tsx, the multi-board version with *)
(* per-board undo/redo history and remote persistence).                    *)
(*                                                                         *)
(* One action is one maximal synchronous run of a handler on the UI event  *)
(* loop: from a user event or the completion of an asynchronous call up to *)
(* the next `await` on a network call / surface restore.  An `await` on a  *)
(* promise that is already settled does not yield to user events, so the   *)
(* code after it belongs to the same action.  A handler that is suspended  *)
(* occupies one slot of `tasks` together with the values its closure       *)
(* captured when it was invoked.  The handlers are the operations the     *)
(* component hands to Header, Canvas and BoardControls; they may be called *)
(* in any state, onReady included.  `budget` bounds the number of handler  *)
(* invocations of a run; `obs` and `run` are history variables read only by *)
(* the properties.                                                         *)
(*                                                                         *)
(* Spec: the controller with a store whose rows are not tracked (its       *)
(* answers are arbitrary).  SpecTracked: the same steps with the rows of   *)
(* the session tracked.  SpecTools: the steps of Spec and the handlers of  *)
(* the toolbar.  SpecAnyIndex: the steps of Spec and switch/delete calls    *)
(* whose index names no board.  SpecFair: the steps of Spec, every         *)
(* completion that is due eventually taken.  SpecSession: the steps of     *)
(* Spec and the renders of the component, for every state of localStorage. *)
(***************************************************************************)
EXTENDS Integers, Sequences, FiniteSets, Bags, TLC

\* ---- bounds of the model -------------------------------------------------
MaxBoards == 3   \* boards (and history logs) that may exist at once
MaxSnap == 3     \* surface changes / toJSON() calls in one run
MaxTasks == 2    \* handlers suspended at an await at the same time
MaxRows == 2     \* rows stored for the session before the controller starts
MaxEvents == 5   \* handler invocations by the UI in one run
MaxTrackedEvents == 4   \* the same, in a run with the rows of the store tracked
MaxToolEvents == 4      \* the same, in a run with the toolbar
MaxAnyIndexEvents == 4  \* the same, in a run with indexes that name no board
MaxFairEvents == 4      \* the same, in a run whose completions are scheduled
MaxSessionEvents == 3   \* the same, in a run with the session identifier
MaxUuid == 3            \* identifiers crypto.randomUUID() may return in one run

\* ---- values --------------------------------------------------------------
\* A snapshot is the object returned by canvas.toJSON(): `c` is the drawing
\* content it describes, `id` the identity of the object (0 for the `{}`
\* literals and for objects decoded from a stored row).
Snap(c, id) == [c |-> c, id |-> id]
EmptySnap == Snap(0, 0)
\* The elements of `boards` are written and copied but never read: the model
\* keeps the shape of the array, an element is a board object or a hole.
BoardObj == "board"
Undef == "hole"
\* NaN and undefined as elements of boardHistoryIndex
NaN == -2
Hole == -3
\* content of the row stored at index i before the controller starts
OldContent(i) == 100 + i
NoRow == -1
\* a row of a store whose rows are not tracked: the store is shared with every
\* other client of the session, its answers are then arbitrary
Unknown == -9

IsNum(x) == x >= 0

Min(x, y) == IF x < y THEN x ELSE y
Max(x, y) == IF x > y THEN x ELSE y

\* ---- JavaScript arrays (0-based) as sequences ------------------------------
InRange(arr, i) == i >= 0 /\ i < Len(arr)
\* arr[i] = v, extending the array with holes when i >= arr.length; a
\* negative i names a property, the elements stay as they are
SetAt(arr, i, v, hole) ==
    IF i < 0 THEN arr
    ELSE IF i < Len(arr) THEN [arr EXCEPT ![i + 1] = v]
    ELSE [j \in 1..(i + 1) |-> IF j <= Len(arr) THEN arr[j]
                               ELSE IF j = i + 1 THEN v ELSE hole]
\* arr without the element at index k
Without(arr, k) ==
    IF InRange(arr, k)
    THEN [j \in 1..(Len(arr) - 1) |-> IF j <= k THEN arr[j] ELSE arr[j + 1]]
    ELSE arr
\* arr.splice(0, 1) in place of arr.splice(k, 1)
SpliceHead(arr, k) ==
    IF InRange(arr, k) THEN SubSeq(arr, 2, Len(arr)) ELSE arr

\* arr.splice(k, 1): a negative k counts from the end of the array (and is
\* 0 when it falls before the start)
Splice(arr, k) == Without(arr, IF k < 0 THEN Max(Len(arr) + k, 0) ELSE k)
\* arr.filter((_, i) => i !== k)
FilterOut(arr, k) == Without(arr, k)
\* arr.slice(0, e)
Slice0(arr, e) == SubSeq(arr, 1, Min(Max(e, 0), Len(arr)))

VARIABLES
    boards,             \* React state `boards`
    activeBoardIndex,   \* React state `activeBoardIndex`
    boardHistory,       \* boardHistory.current
    boardHistoryIndex,  \* boardHistoryIndex.current
    isRestoringHistory, \* isRestoringHistory.current (the guard flag)
    canUndo, canRedo,   \* React state, rendered as the buttons' enabled state
    isCanvasReady,      \* React state
    isInitialLoadRef,   \* isInitialLoadRef.current
    canvas,             \* content of the surface canvasRef.current
    nextId,             \* next fresh content / snapshot identity
    remote,             \* rows of the session in the remote store
    tasks,              \* bag of the suspended handlers
    toast,              \* error notifications shown by the last step
    outcome,            \* how the last step ended: "ok", an early return
                        \* ("undo_noop", ...), "capture_dropped" or "throw"
    budget,             \* handler invocations the UI may still make
    obs,                \* history variable (not program state): what has been
                        \* applied to each log, and the capture-undo-redo
                        \* round trip under way
    brushColor,         \* React state `brushColor`
    brushSize,          \* React state `brushSize`
    activeTool,         \* React state `activeTool`
    run,                \* history variable (not program state): the
                        \* deleteBoard call and the scripted scenario under way
    sessionIdRef,       \* sessionIdRef.current (the ownership key)
    sessionStore,       \* localStorage, item whiteboard_session_id
    lastSessionId       \* what the latest call of getSessionId returned

vars == <<boards, activeBoardIndex, boardHistory, boardHistoryIndex,
          isRestoringHistory, canUndo, canRedo, isCanvasReady,
          isInitialLoadRef, canvas, nextId, remote, tasks, toast, outcome, budget, obs,
          brushColor, brushSize, activeTool, run, sessionIdRef, sessionStore,
          lastSessionId>>

\* ---- suspended handlers ------------------------------------------------------
\* op: the handler; pc: the call it awaits; a: activeBoardIndex of its closure;
\* k: its argument / target index; snap: the snapshot it holds; bs: `boards`
\* of its closure (handleDeleteBoard); pend: index updates not yet answered;
\* key: the session_id the call it awaits was issued with.
\* Fields the rest of the handler does not read are left at 0 / <<>> / {}.
Task(op, pc, a, k, snap, bs, pend) ==
    [op |-> op, pc |-> pc, a |-> a, k |-> k, snap |-> snap, bs |-> bs,
     pend |-> pend, key |-> sessionIdRef]
Pending == BagToSet(tasks)
HasFree == BagCardinality(tasks) < MaxTasks
Suspend(t) == tasks (+) SetToBag({t})
Finish(t) == tasks (-) SetToBag({t})
Resume(t, u) == (tasks (-) SetToBag({t})) (+) SetToBag({u})

\* an invocation of a handler by the UI (user event, onReady)
Invoked == budget > 0 /\ budget' = budget - 1

\* ---- reads of the history refs -------------------------------------------------
HasLog(i) == InRange(boardHistory, i)
LogAt(i) == boardHistory[i + 1]
IdxAt(i) == IF InRange(boardHistoryIndex, i) THEN boardHistoryIndex[i + 1] ELSE Hole

\* The effect on [activeBoardIndex, boards]: value of canUndo / canRedo for
\* history refs h, hi and active index a.
\* `index >= 0` in place of `index > 0`
EffCanUndoNonNeg(hi, a) ==
    LET index == IF InRange(hi, a) /\ hi[a + 1] # Hole THEN hi[a + 1] ELSE -1
    IN  index >= 0

EffCanUndo(hi, a) ==
    LET index == IF InRange(hi, a) /\ hi[a + 1] # Hole THEN hi[a + 1] ELSE -1
    IN  index > 0
\* `index < history.length` in place of `index < history.length - 1`
EffCanRedoOffByOne(h, hi, a) ==
    LET len == IF InRange(h, a) THEN Len(h[a + 1]) ELSE 0
        index == IF InRange(hi, a) /\ hi[a + 1] # Hole THEN hi[a + 1] ELSE -1
    IN  index # NaN /\ index < len

EffCanRedo(h, hi, a) ==
    LET len == IF InRange(h, a) THEN Len(h[a + 1]) ELSE 0
        index == IF InRange(hi, a) /\ hi[a + 1] # Hole THEN hi[a + 1] ELSE -1
    IN  index # NaN /\ index < len - 1
\* re-render after `boards` or `activeBoardIndex` changed in this step
Rerender ==
    /\ canUndo' = EffCanUndo(boardHistoryIndex', activeBoardIndex')
    /\ canRedo' = EffCanRedo(boardHistory', boardHistoryIndex', activeBoardIndex')
\* setActiveBoardIndex alone: no re-render when the value is the same
RerenderIf(changed) == IF changed THEN Rerender ELSE UNCHANGED <<canUndo, canRedo>>

\* ---- the gateway (supabase.from("boards")) ------------------------------------
RemoteIdx == 0..MaxBoards
UntrackedRemote == [i \in RemoteIdx |-> Unknown]
InitialRemote(m) == [i \in RemoteIdx |-> IF i < m THEN OldContent(i) ELSE NoRow]
Tracked(r) == r[0] # Unknown

\* upsert({board_index: i, content: c}, {onConflict: "session_id,board_index"})
Upserted(r, i, c, ok) == IF ok /\ Tracked(r) THEN [r EXCEPT ![i] = c] ELSE r

\* insert({board_index: i, content: {}}): rejected when the row exists (the
\* conflict key of the upsert, session_id,board_index, is unique) or when the
\* call fails
InsertOk(r, i, ok) == ok /\ (Tracked(r) => r[i] = NoRow)
Inserted(r, i, ok) == IF InsertOk(r, i, ok) /\ Tracked(r) THEN [r EXCEPT ![i] = 0] ELSE r

\* delete().match({board_index: i})
Deleted(r, i, ok) == IF ok /\ Tracked(r) THEN [r EXCEPT ![i] = NoRow] ELSE r

\* update({board_index: i - 1}).match({board_index: i})
Renumbered(r, i, ok) ==
    IF ok /\ Tracked(r) /\ r[i] # NoRow /\ r[i - 1] = NoRow
    THEN [r EXCEPT ![i - 1] = r[i], ![i] = NoRow]
    ELSE r

\* select("content, board_index").order("board_index", ascending): the
\* contents of the stored rows by index
RowIdx(r) == {i \in DOMAIN r : r[i] # NoRow}
Ascending(S) ==
    CHOOSE q \in [1..Cardinality(S) -> S] :
        \A i, j \in 1..Cardinality(S) : i < j => q[i] < q[j]
SelectAll(r) == [j \in 1..Cardinality(RowIdx(r)) |-> r[Ascending(RowIdx(r))[j]]]
SelectResults(r) ==
    IF Tracked(r) THEN {SelectAll(r)}
    ELSE {[j \in 1..m |-> OldContent(j - 1)] : m \in 0..MaxRows}

\* ---- the history variable ---------------------------------------------------------
\* obs.captures[i + 1]: captures applied to the log at index i since it was
\* created; obs.undone[i + 1]: whether an undo or redo has moved its cursor;
\* obs.trip: phase 1 after a capture on board a (with the log as the capture
\* left it), 2 after an undo on it, 3 after the redo that follows
NoTrip == [phase |-> 0, a |-> 0, entries |-> <<>>, cursor |-> 0]

\* ev names the step: "capture" (a handler that calls updateHistoryAndSave),
\* "undo", "redo", "load", "add", "switch", "delete" (k: the deleted index),
\* "answer" (a completion that touches neither the logs nor the active
\* index) or "other"
Observed(ev, k) ==
    LET a == activeBoardIndex
        n == Len(boardHistory')
        captured == ev = "capture" /\ boardHistory' # boardHistory
        moved == /\ ev \in {"undo", "redo"}
                 /\ HasLog(a)
                 /\ boardHistoryIndex' # boardHistoryIndex
        loaded == ev = "load" /\ toast' = {}
        captures ==
            IF loaded THEN [j \in 1..n |-> 0]
            ELSE IF captured THEN [obs.captures EXCEPT ![a + 1] = @ + 1]
            ELSE IF ev = "add" /\ n > Len(boardHistory) THEN Append(obs.captures, 0)
            ELSE IF ev = "delete" /\ n < Len(boardHistory) THEN Splice(obs.captures, k)
            ELSE obs.captures
        undone ==
            IF loaded THEN [j \in 1..n |-> FALSE]
            ELSE IF moved THEN [obs.undone EXCEPT ![a + 1] = TRUE]
            ELSE IF ev = "add" /\ n > Len(boardHistory) THEN Append(obs.undone, FALSE)
            ELSE IF ev = "delete" /\ n < Len(boardHistory) THEN Splice(obs.undone, k)
            ELSE obs.undone
        trip ==
            IF captured
            THEN [phase |-> 1, a |-> a, entries |-> boardHistory'[a + 1],
                  cursor |-> boardHistoryIndex'[a + 1]]
            ELSE IF ev = "undo" /\ moved /\ obs.trip.phase = 1 /\ obs.trip.a = a
            THEN [obs.trip EXCEPT !.phase = 2]
            ELSE IF ev = "redo" /\ moved /\ obs.trip.phase = 2 /\ obs.trip.a = a
            THEN [obs.trip EXCEPT !.phase = 3]
            ELSE IF ev = "answer" /\ obs.trip.phase \in {1, 2}
            THEN obs.trip
            ELSE NoTrip
    IN  obs' = [captures |-> captures, undone |-> undone, trip |-> trip]

\* run.del: the deleteBoard(k) call under way on n boards, made when nothing
\* else was pending and the store held exactly the rows 0..n-1 (`rows`);
\* phase 1 while all its gateway calls so far were answered as a call that
\* succeeds is, 2 in the state its last call leaves
NoDel == [phase |-> 0, k |-> 0, n |-> 0, rows |-> UntrackedRemote]
\* run.script: progress of the run addBoard(), switchBoard(0), one surface
\* change, undo(), deleteBoard(1) from the initial state, each call made when
\* the one before has completed and every gateway call answered without
\* error; even while nothing is pending, odd while a call is under way, -1
\* once the run has left the script; run.rowGone: the board index of the row
\* the gateway has deleted in the scripted run (-1: none); run.recolored: the
\* tool that was active when the last step chose a color ("none": the last
\* step was no choice of a color); run.clean: on a store with tracked rows,
\* no gateway call has been answered with an error so far; run.loadFailed:
\* on a store with tracked rows, the select of loadData was answered with an
\* error while nothing else was pending (every call answered later was
\* issued after the failure)
NoRun == [script |-> 0, del |-> NoDel, rowGone |-> -1, recolored |-> "none",
          clean |-> TRUE, loadFailed |-> FALSE]

UserSteps == {"draw", "clear", "undo", "redo", "ready", "add", "switch",
              "delete", "color", "size", "tool"}
ScriptStep(p) ==
    CASE p = 0 -> <<"add", 0>>
      [] p = 2 -> <<"switch", 0>>
      [] p = 4 -> <<"draw", 0>>
      [] p = 6 -> <<"undo", 0>>
      [] p = 8 -> <<"delete", 1>>
      [] OTHER -> <<"none", 0>>

\* step names the action; k is its argument (the index given to
\* handleSwitchBoard / handleDeleteBoard, the index of the answered update)
Followed(step, k) ==
    LET p == run.script
        d == run.del
        quiet == tasks' = EmptyBag
        script ==
            IF p < 0 \/ p >= 10 THEN -1
            ELSE IF step \in UserSteps
            THEN IF p % 2 = 0 /\ <<step, k>> = ScriptStep(p)
                 THEN (IF quiet THEN p + 2 ELSE p + 1)
                 ELSE -1
            ELSE IF p % 2 = 1 /\ toast' = {}
                 THEN (IF quiet THEN p + 1 ELSE p)
                 ELSE -1
        done == \A u \in BagToSet(tasks') : u.pc \notin {"delete", "updates"}
        del ==
            IF /\ step = "delete"
               /\ Tracked(remote)
               /\ tasks = EmptyBag
               /\ tasks' # tasks
               /\ RowIdx(remote) = 0..(Len(boards) - 1)
            THEN [phase |-> 1, k |-> k, n |-> Len(boards), rows |-> remote]
            ELSE IF \/ d.phase = 1 /\ step = "deleteAnswered" /\ toast' = {}
                    \/ /\ d.phase = 1
                       /\ step = "updateAnswered"
                       /\ remote' = Renumbered(remote, k, TRUE)
            THEN [d EXCEPT !.phase = IF done THEN 2 ELSE 1]
            ELSE NoDel
        rowGone ==
            IF script < 0 THEN -1
            ELSE IF step = "deleteAnswered" /\ toast' = {} THEN k
            ELSE run.rowGone
        recolored == IF step = "color" THEN activeTool ELSE "none"
        failed ==
            \/ step \in {"saved", "inserted", "deleteAnswered", "selected"} /\ toast' # {}
            \/ step = "inserted" /\ remote' = remote
            \/ step = "updateAnswered" /\ remote' # Renumbered(remote, k, TRUE)
        clean == ~Tracked(remote) \/ (run.clean /\ ~failed)
        loadFailed ==
            \/ run.loadFailed
            \/ /\ Tracked(remote)
               /\ step = "selected"
               /\ toast' # {}
               /\ tasks' = EmptyBag
    IN  run' = [script |-> script, del |-> del, rowGone |-> rowGone,
                recolored |-> recolored, clean |-> clean,
                loadFailed |-> loadFailed]

\* ---- the toolbar --------------------------------------------------------------
\* values of COLORS, SIZES and of the tool names the toolbar passes
Colors == {"hsl(0, 0%, 10%)", "hsl(0, 72%, 51%)"}
Sizes == {6, 12}
ToolNames == {"pencil", "eraser", "text"}

\* ---- the session identifier (lib/session.ts) -------------------------------
\* localStorage: not accessible (getItem throws), no item stored (null), or
\* the identifier stored by an earlier visit; the identifiers returned by
\* crypto.randomUUID() are FirstUuid, FirstUuid + 1, ...
Unavailable == -2
NoneStored == -1
StoredId == 0
FirstUuid == 1

\* getSessionId without the read of the stored identifier
GetSessionIdFresh(store, uuid) ==
    [id |-> uuid, store |-> IF store = Unavailable THEN store ELSE uuid]

\* getSessionId(): the identifier returned and localStorage afterwards; uuid
\* is what crypto.randomUUID() returns when it is called
GetSessionId(store, uuid) ==
    IF store = Unavailable THEN [id |-> uuid, store |-> store]
    ELSE IF store = NoneStored THEN [id |-> uuid, store |-> uuid]
    ELSE [id |-> store, store |-> store]

\* the first render with the identifier of an earlier visit in localStorage
SessionStored ==
    /\ sessionStore = StoredId
    /\ sessionIdRef = GetSessionId(StoredId, FirstUuid).id
    /\ lastSessionId = sessionIdRef

\* a step that is no render of Whiteboard: getSessionId is not called (a
\* render with the identifier in localStorage changes nothing)
SessionKept == UNCHANGED <<sessionIdRef, sessionStore, lastSessionId>>

Init ==
    /\ SessionStored
    /\ brushColor = "hsl(0, 0%, 10%)"
    /\ brushSize = 6
    /\ activeTool = "pencil"
    /\ run = NoRun
    /\ boards = <<BoardObj>>
    /\ activeBoardIndex = 0
    /\ boardHistory = <<(<<EmptySnap>>)>>
    /\ boardHistoryIndex = <<0>>
    /\ isRestoringHistory = FALSE
    /\ canUndo = FALSE
    /\ canRedo = FALSE
    /\ isCanvasReady = FALSE
    /\ isInitialLoadRef = TRUE
    /\ canvas = 0
    /\ nextId = 1
    /\ remote = UntrackedRemote
    /\ tasks = EmptyBag
    /\ toast = {}
    /\ outcome = "ok"
    /\ budget = MaxEvents
    /\ obs = [captures |-> <<0>>, undone |-> <<FALSE>>, trip |-> NoTrip]

\* ---- updateHistoryAndSave ------------------------------------------------------
\* updateHistoryAndSave without the test of the guard flag
CaptureUnguarded(a) == IF ~HasLog(a) THEN "throw" ELSE "ok"

\* outcome of the synchronous part for the closure's activeBoardIndex a
CaptureOutcome(a) ==
    IF isRestoringHistory THEN "capture_dropped"
    ELSE IF ~HasLog(a) THEN "throw"
    ELSE "ok"

\* push(currentState) on the whole log, without the slice
AppendOnly(history, index, currentState) == Append(history, currentState)

\* history.slice(0, index + 1) followed by push(currentState)
TruncateAppend(history, index, currentState) ==
    Append(Slice0(history, IF IsNum(index) THEN index + 1 ELSE 0), currentState)

\* the same writes, made to the first board whatever the active index is
UpdateHistoryFirst(a, currentState) ==
    LET newHistory == TruncateAppend(LogAt(0), IdxAt(0), currentState)
    IN  /\ boardHistory' = [boardHistory EXCEPT ![1] = newHistory]
        /\ boardHistoryIndex' = SetAt(boardHistoryIndex, 0, Len(newHistory) - 1, Hole)
        /\ boards' = SetAt(boards, 0, BoardObj, Undef)

\* the writes of updateHistoryAndSave to the refs and to `boards`
UpdateHistory(a, currentState) ==
    LET newHistory == TruncateAppend(LogAt(a), IdxAt(a), currentState)
    IN  /\ boardHistory' = [boardHistory EXCEPT ![a + 1] = newHistory]
        /\ boardHistoryIndex' = SetAt(boardHistoryIndex, a, Len(newHistory) - 1, Hole)
        /\ boards' = SetAt(boards, a, BoardObj, Undef)

\* saveBoardStateToSupabase returns without a call during the initial load
SaveIssuesUpsert == ~isInitialLoadRef

\* a surface-change notification of Canvas (path:created, mouse:up, text
\* and sticky-note insertion): the surface has changed, onUpdate is called
Draw ==
    /\ Invoked
    /\ nextId <= MaxSnap
    /\ canvas' = nextId
    /\ nextId' = nextId + 1
    /\ toast' = {}
    /\ UNCHANGED <<activeBoardIndex, isRestoringHistory, isCanvasReady,
                   isInitialLoadRef, remote>>
    /\ LET a == activeBoardIndex
           currentState == Snap(nextId, nextId)
       IN  /\ outcome' = CaptureOutcome(a)
           /\ IF CaptureOutcome(a) = "ok"
              THEN /\ UpdateHistory(a, currentState)
                   /\ Rerender
                   /\ IF SaveIssuesUpsert
                      THEN /\ HasFree
                           /\ tasks' = Suspend(Task("capture", "upsert", a, a,
                                                    currentState, <<>>, {}))
                      ELSE UNCHANGED tasks
              ELSE UNCHANGED <<boards, boardHistory, boardHistoryIndex,
                               canUndo, canRedo, tasks>>

\* handleClearAll: the surface is emptied, then updateHistoryAndSave
handleClearAll ==
    /\ Invoked
    /\ canvas' = 0
    /\ toast' = {}
    /\ UNCHANGED <<activeBoardIndex, isRestoringHistory, isCanvasReady,
                   isInitialLoadRef, remote>>
    /\ LET a == activeBoardIndex
           currentState == Snap(0, nextId)
       IN  /\ outcome' = CaptureOutcome(a)
           /\ IF CaptureOutcome(a) = "ok"
              THEN /\ nextId <= MaxSnap
                   /\ nextId' = nextId + 1
                   /\ UpdateHistory(a, currentState)
                   /\ Rerender
                   /\ IF SaveIssuesUpsert
                      THEN /\ HasFree
                           /\ tasks' = Suspend(Task("clear", "upsert", a, a,
                                                    currentState, <<>>, {}))
                      ELSE UNCHANGED tasks
              ELSE UNCHANGED <<boards, boardHistory, boardHistoryIndex,
                               canUndo, canRedo, tasks, nextId>>

\* ---- handleUndo / handleRedo -------------------------------------------------------
\* a copy of history[i] in place of the element itself
EntryCopyAt(history, i) == Snap(history[i + 1].c, 0)

\* history[i], the element itself
EntryAt(history, i) == history[i + 1]

\* `index < 0` in place of `index <= 0`
UndoNoopBelowZero(a) == IsNum(IdxAt(a)) /\ IdxAt(a) < 0

UndoNoop(a) == IsNum(IdxAt(a)) /\ IdxAt(a) <= 0

handleUndo ==
    LET a == activeBoardIndex
        index == IdxAt(a)
        newIndex == IF IsNum(index) THEN index - 1 ELSE NaN
    IN  /\ Invoked
        /\ UNCHANGED <<boards, activeBoardIndex, boardHistory, canUndo, canRedo,
                       isCanvasReady, isInitialLoadRef, canvas, nextId, remote>>
        /\ toast' = {}
        /\ IF UndoNoop(a)
           THEN /\ UNCHANGED <<boardHistoryIndex, isRestoringHistory, tasks>>
                /\ outcome' = "undo_noop"
           ELSE /\ isRestoringHistory' = TRUE
                /\ boardHistoryIndex' = SetAt(boardHistoryIndex, a, newIndex, Hole)
                /\ IF ~HasLog(a)
                   THEN \* boardHistory.current[a] is undefined: TypeError
                        /\ UNCHANGED tasks
                        /\ outcome' = "throw"
                   ELSE IF ~InRange(LogAt(a), newIndex)
                   THEN \* loadFromJSON(undefined): the callback never runs
                        /\ UNCHANGED tasks
                        /\ outcome' = "stuck"
                   ELSE /\ HasFree
                        /\ tasks' = Suspend(Task("undo", "restore", a, a,
                                                 EntryAt(LogAt(a), newIndex), <<>>, {}))
                        /\ outcome' = "ok"

RedoThrows(a) == ~HasLog(a)
\* `index >= history.length` in place of `index >= history.length - 1`
RedoNoopPastEnd(a) == HasLog(a) /\ IsNum(IdxAt(a)) /\ IdxAt(a) >= Len(LogAt(a))

RedoNoop(a) == HasLog(a) /\ IsNum(IdxAt(a)) /\ IdxAt(a) >= Len(LogAt(a)) - 1

handleRedo ==
    LET a == activeBoardIndex
        index == IdxAt(a)
        newIndex == IF IsNum(index) THEN index + 1 ELSE NaN
    IN  /\ Invoked
        /\ UNCHANGED <<boards, activeBoardIndex, boardHistory, canUndo, canRedo,
                       isCanvasReady, isInitialLoadRef, canvas, nextId, remote>>
        /\ toast' = {}
        /\ IF RedoThrows(a)
           THEN \* history.length on undefined: TypeError before any write
                /\ UNCHANGED <<boardHistoryIndex, isRestoringHistory, tasks>>
                /\ outcome' = "throw"
           ELSE IF RedoNoop(a)
           THEN /\ UNCHANGED <<boardHistoryIndex, isRestoringHistory, tasks>>
                /\ outcome' = "redo_noop"
           ELSE /\ isRestoringHistory' = TRUE
                /\ boardHistoryIndex' = SetAt(boardHistoryIndex, a, newIndex, Hole)
                /\ IF ~InRange(LogAt(a), newIndex)
                   THEN /\ UNCHANGED tasks
                        /\ outcome' = "stuck"
                   ELSE /\ HasFree
                        /\ tasks' = Suspend(Task("redo", "restore", a, a,
                                                 EntryAt(LogAt(a), newIndex), <<>>, {}))
                        /\ outcome' = "ok"

\* what the surface shows when the loadFromJSON of t has completed: the
\* snapshot, unless it was loaded into an instance disposed in the meantime
RestoredSurface(t) == IF t.pc = "restore" THEN t.snap.c ELSE canvas

\* completion callback of the loadFromJSON started by handleUndo / handleRedo
UndoRedoRestored(t) ==
    /\ UNCHANGED budget
    /\ t.op \in {"undo", "redo"}
    /\ t.pc \in {"restore", "restore_old"}
    /\ canvas' = RestoredSurface(t)
    /\ boards' = SetAt(boards, t.a, BoardObj, Undef)
    /\ UNCHANGED <<activeBoardIndex, boardHistory, boardHistoryIndex,
                   isCanvasReady, isInitialLoadRef, nextId, remote>>
    /\ Rerender
    /\ toast' = {}
    /\ outcome' = "ok"
    /\ IF SaveIssuesUpsert
       THEN /\ tasks' = Resume(t, [t EXCEPT !.pc = "upsert"])
            /\ UNCHANGED isRestoringHistory
       ELSE /\ tasks' = Finish(t)
            /\ isRestoringHistory' = FALSE

\* ---- the gateway answers an upsert ---------------------------------------------
\* nothing is shown whatever the answer
SaveToastSilent(ok) == {}

\* toast.error when the answer carries an error
SaveToast(ok) == IF ok THEN {} ELSE {"Failed to save changes."}

\* upsert issued for a surface-change notification or by handleClearAll
CaptureSaved(t) ==
    \E ok \in BOOLEAN :
        /\ UNCHANGED budget
        /\ t.op \in {"capture", "clear"}
        /\ t.pc = "upsert"
        /\ remote' = Upserted(remote, t.a, t.snap.c, ok)
        /\ toast' = SaveToast(ok)
        /\ tasks' = Finish(t)
        /\ outcome' = "ok"
        /\ UNCHANGED <<boards, activeBoardIndex, boardHistory, boardHistoryIndex,
                       isRestoringHistory, canUndo, canRedo, isCanvasReady,
                       isInitialLoadRef, canvas, nextId>>

\* upsert issued by the completion callback of an undo / redo
UndoRedoSaved(t) ==
    \E ok \in BOOLEAN :
        /\ UNCHANGED budget
        /\ t.op \in {"undo", "redo"}
        /\ t.pc = "upsert"
        /\ remote' = Upserted(remote, t.a, t.snap.c, ok)
        /\ isRestoringHistory' = FALSE
        /\ toast' = SaveToast(ok)
        /\ tasks' = Finish(t)
        /\ outcome' = "ok"
        /\ UNCHANGED <<boards, activeBoardIndex, boardHistory, boardHistoryIndex,
                       canUndo, canRedo, isCanvasReady, isInitialLoadRef, canvas,
                       nextId>>

\* ---- initial load ----------------------------------------------------------------
\* the numbers that may be found under whiteboard_active_index in local
\* storage (0 when nothing is stored)
MaxSaved == MaxBoards
SavedIndexes == -1..MaxSaved

\* handleCanvasReady and the effect on [isCanvasReady]: loadData is started
handleCanvasReady ==
    /\ Invoked
    /\ ~isCanvasReady
    /\ isInitialLoadRef
    /\ HasFree
    /\ isCanvasReady' = TRUE
    /\ isInitialLoadRef' = FALSE
    /\ tasks' = Suspend(Task("load", "select", 0, 0, EmptySnap, <<>>, {}))
    /\ toast' = {}
    /\ outcome' = "ok"
    /\ UNCHANGED <<boards, activeBoardIndex, boardHistory, boardHistoryIndex,
                   isRestoringHistory, canUndo, canRedo, canvas, nextId, remote>>

\* the gateway answers the select of loadData; activeIndex is the number read
\* from local storage (0 when nothing is stored); data is null when the
\* answer carries an error.  Where the code does not read activeIndex (error,
\* no rows) one value stands for all.
LoadSelected(t) ==
    \E ok \in BOOLEAN, activeIndex \in SavedIndexes :
    \E data \in IF ok THEN SelectResults(remote) ELSE {<<>>} :
    LET loadedBoards == [j \in 1..Len(data) |-> Snap(data[j], 0)]
        finalIndex == IF activeIndex < Len(loadedBoards) THEN activeIndex ELSE 0
    IN  /\ UNCHANGED budget
        /\ t.op = "load"
        /\ t.pc = "select"
        /\ outcome' = "ok"
        /\ UNCHANGED <<isRestoringHistory, isCanvasReady, isInitialLoadRef,
                       canvas, nextId, remote>>
        /\ IF ~ok
           THEN /\ activeIndex = 0
                /\ tasks' = Finish(t)
                /\ toast' = {"Could not restore your session."}
                /\ UNCHANGED <<boards, activeBoardIndex, boardHistory,
                               boardHistoryIndex, canUndo, canRedo>>
           ELSE IF Len(data) > 0
           THEN /\ boards' = [j \in 1..Len(data) |-> BoardObj]
                /\ boardHistory' = [j \in 1..Len(data) |-> <<loadedBoards[j]>>]
                /\ boardHistoryIndex' = [j \in 1..Len(data) |-> 0]
                /\ activeBoardIndex' = finalIndex
                /\ Rerender
                /\ tasks' = Resume(t, Task("load", "restore", 0, 0,
                                           IF InRange(loadedBoards, finalIndex)
                                           THEN loadedBoards[finalIndex + 1]
                                           ELSE EmptySnap, <<>>, {}))
                /\ toast' = {}
           ELSE /\ activeIndex = 0
                /\ boards' = <<BoardObj>>
                /\ activeBoardIndex' = 0
                /\ boardHistory' = <<(<<EmptySnap>>)>>
                /\ boardHistoryIndex' = <<0>>
                /\ Rerender
                /\ tasks' = Resume(t, Task("load", "insert", 0, 0, EmptySnap, <<>>, {}))
                /\ toast' = {}

\* the gateway answers the insert of the seed row; loadData ignores the result
LoadSeeded(t) ==
    \E ok \in BOOLEAN :
        /\ UNCHANGED budget
        /\ t.op = "load"
        /\ t.pc = "insert"
        /\ remote' = Inserted(remote, 0, ok)
        /\ tasks' = Finish(t)
        /\ toast' = {}
        /\ outcome' = "ok"
        /\ UNCHANGED <<boards, activeBoardIndex, boardHistory, boardHistoryIndex,
                       isRestoringHistory, canUndo, canRedo, isCanvasReady,
                       isInitialLoadRef, canvas, nextId>>

\* completion of a loadFromJSON whose callback only renders (loadData,
\* handleSwitchBoard, handleDeleteBoard)
PlainRestored(t) ==
    /\ UNCHANGED budget
    /\ t.op \in {"load", "switch", "delete"}
    /\ t.pc \in {"restore", "restore_old"}
    /\ canvas' = RestoredSurface(t)
    /\ tasks' = Finish(t)
    /\ toast' = {}
    /\ outcome' = "ok"
    /\ UNCHANGED <<boards, activeBoardIndex, boardHistory, boardHistoryIndex,
                   isRestoringHistory, canUndo, canRedo, isCanvasReady,
                   isInitialLoadRef, nextId, remote>>

\* the numbers handleSwitchBoard / handleDeleteBoard are called with
BoardArgs == -1..MaxBoards

\* boardHistory.current[i][boardHistoryIndex.current[i]] || {} for refs h, hi
BoardState(h, hi, i) ==
    LET index == IF InRange(hi, i) THEN hi[i + 1] ELSE Hole
    IN  IF InRange(h[i + 1], index) THEN h[i + 1][index + 1] ELSE EmptySnap

\* ---- handleSwitchBoard -----------------------------------------------------------
\* the part of handleSwitchBoard after `await updateHistoryAndSave()`; base is
\* the bag of the other suspended handlers, shown the errors already shown
SwitchContinue(base, a, index, shown) ==
    /\ activeBoardIndex' = index
    /\ RerenderIf(index # activeBoardIndex \/ boards' # boards
                  \/ boardHistory' # boardHistory)
    /\ UNCHANGED <<isRestoringHistory, isCanvasReady, isInitialLoadRef>>
    /\ toast' = shown
    /\ IF ~InRange(boardHistory', index)
       THEN \* boardHistory.current[index] is undefined: TypeError
            /\ tasks' = base
            /\ outcome' = "throw"
       ELSE /\ BagCardinality(base) < MaxTasks
            /\ tasks' = base (+) SetToBag({Task("switch", "restore", 0, 0,
                            BoardState(boardHistory', boardHistoryIndex', index),
                            <<>>, {})})
            /\ outcome' = "ok"

handleSwitchBoard(index) ==
    LET a == activeBoardIndex
        currentState == Snap(canvas, nextId)
    IN  /\ Invoked
        /\ index \in BoardArgs
        /\ UNCHANGED <<canvas, remote>>
        /\ IF index = a \/ CaptureOutcome(a) = "throw"
           THEN /\ toast' = {}
                /\ outcome' = IF index = a THEN "switch_noop" ELSE "throw"
                /\ UNCHANGED <<boards, activeBoardIndex, boardHistory,
                               boardHistoryIndex, isRestoringHistory, canUndo,
                               canRedo, isCanvasReady, isInitialLoadRef, nextId,
                               tasks>>
           ELSE IF CaptureOutcome(a) = "capture_dropped"
           THEN /\ UNCHANGED <<boards, boardHistory, boardHistoryIndex, nextId>>
                /\ SwitchContinue(tasks, a, index, {})
           ELSE /\ nextId <= MaxSnap
                /\ nextId' = nextId + 1
                /\ UpdateHistory(a, currentState)
                /\ IF SaveIssuesUpsert
                   THEN /\ HasFree
                        /\ tasks' = Suspend(Task("switch", "upsert", a, index,
                                                 currentState, <<>>, {}))
                        /\ UNCHANGED <<activeBoardIndex, isRestoringHistory,
                                       isCanvasReady, isInitialLoadRef>>
                        /\ Rerender
                        /\ toast' = {}
                        /\ outcome' = "ok"
                   ELSE SwitchContinue(tasks, a, index, {})

\* the gateway answers the upsert of the flush capture of handleSwitchBoard
SwitchSaved(t) ==
    \E ok \in BOOLEAN :
        /\ UNCHANGED budget
        /\ t.op = "switch"
        /\ t.pc = "upsert"
        /\ remote' = Upserted(remote, t.a, t.snap.c, ok)
        /\ UNCHANGED <<boards, boardHistory, boardHistoryIndex, canvas, nextId>>
        /\ SwitchContinue(Finish(t), t.a, t.k, SaveToast(ok))

\* ---- handleAddBoard ----------------------------------------------------------------
NumAdds == BagCardinality([t \in {u \in Pending : u.op = "add"} |-> tasks[t]])
\* bound: the arrays never grow beyond MaxBoards
RoomToAdd ==
    Max(Len(boards), Max(Len(boardHistory), Len(boardHistoryIndex))) + NumAdds
        < MaxBoards

handleAddBoard ==
    LET a == activeBoardIndex
        currentState == Snap(canvas, nextId)
        newIndex == Len(boards)
    IN  /\ Invoked
        /\ RoomToAdd
        /\ UNCHANGED <<activeBoardIndex, isRestoringHistory, isCanvasReady,
                       isInitialLoadRef, canvas, remote>>
        /\ toast' = {}
        /\ outcome' = IF CaptureOutcome(a) = "throw" THEN "throw" ELSE "ok"
        /\ IF CaptureOutcome(a) = "throw"
           THEN UNCHANGED <<boards, boardHistory, boardHistoryIndex, canUndo,
                            canRedo, nextId, tasks>>
           ELSE IF CaptureOutcome(a) = "capture_dropped"
           THEN /\ HasFree
                /\ tasks' = Suspend(Task("add", "insert", a, newIndex, EmptySnap,
                                         <<>>, {}))
                /\ UNCHANGED <<boards, boardHistory, boardHistoryIndex, canUndo,
                               canRedo, nextId>>
           ELSE /\ nextId <= MaxSnap
                /\ nextId' = nextId + 1
                /\ UpdateHistory(a, currentState)
                /\ Rerender
                /\ HasFree
                /\ tasks' = Suspend(
                       IF SaveIssuesUpsert
                       THEN Task("add", "upsert", a, newIndex, currentState, <<>>, {})
                       ELSE Task("add", "insert", a, newIndex, EmptySnap, <<>>, {}))

\* the gateway answers the upsert of the flush capture of handleAddBoard;
\* the insert of the new row is issued
AddSaved(t) ==
    \E ok \in BOOLEAN :
        /\ UNCHANGED budget
        /\ t.op = "add"
        /\ t.pc = "upsert"
        /\ remote' = Upserted(remote, t.a, t.snap.c, ok)
        /\ tasks' = Resume(t, [t EXCEPT !.pc = "insert", !.snap = EmptySnap])
        /\ toast' = SaveToast(ok)
        /\ outcome' = "ok"
        /\ UNCHANGED <<boards, activeBoardIndex, boardHistory, boardHistoryIndex,
                       isRestoringHistory, canUndo, canRedo, isCanvasReady,
                       isInitialLoadRef, canvas, nextId>>

\* the handler goes on whatever the answer to the insert is
AddNeverStops(r, i, ok) == FALSE

\* `if (error) { toast.error("Failed to add new board."); return; }`
AddStops(r, i, ok) == ~InsertOk(r, i, ok)

\* the gateway answers the insert of handleAddBoard
AddInserted(t) ==
    \E ok \in BOOLEAN :
        /\ UNCHANGED budget
        /\ t.op = "add"
        /\ t.pc = "insert"
        /\ remote' = Inserted(remote, t.k, ok)
        /\ tasks' = Finish(t)
        /\ outcome' = "ok"
        /\ UNCHANGED <<isRestoringHistory, isCanvasReady, isInitialLoadRef, nextId>>
        /\ IF AddStops(remote, t.k, ok)
           THEN /\ toast' = {"Failed to add new board."}
                /\ UNCHANGED <<boards, activeBoardIndex, boardHistory,
                               boardHistoryIndex, canUndo, canRedo, canvas>>
           ELSE /\ boardHistory' = Append(boardHistory, <<EmptySnap>>)
                /\ boardHistoryIndex' = Append(boardHistoryIndex, 0)
                /\ boards' = Append(boards, BoardObj)
                /\ activeBoardIndex' = t.k
                /\ Rerender
                /\ canvas' = 0
                /\ toast' = {}

\* ---- handleDeleteBoard -----------------------------------------------------------
\* the part of handleDeleteBoard after `await Promise.all(updates)`
DeleteFinish(t) ==
    LET index == t.k
        newActiveIndex == IF index = t.a THEN Max(0, index - 1)
                          ELSE IF index < t.a THEN t.a - 1
                          ELSE t.a
    IN  /\ boardHistory' = Splice(boardHistory, index)
        /\ boardHistoryIndex' = Splice(boardHistoryIndex, index)
        /\ boards' = FilterOut(t.bs, index)
        /\ activeBoardIndex' = newActiveIndex
        /\ Rerender
        /\ UNCHANGED <<isRestoringHistory, isCanvasReady, isInitialLoadRef,
                       canvas, nextId>>
        /\ toast' = {}
        /\ IF ~InRange(boardHistory', newActiveIndex)
           THEN \* boardHistory.current[newActiveIndex] is undefined: TypeError
                /\ tasks' = Finish(t)
                /\ outcome' = "throw"
           ELSE /\ tasks' = Resume(t, Task("delete", "restore", 0, 0,
                        BoardState(boardHistory', boardHistoryIndex', newActiveIndex),
                        <<>>, {}))
                /\ outcome' = "ok"

\* `boards.length < 1` in place of `boards.length <= 1`
DeleteRejectedWhenEmpty(bs) == Len(bs) < 1

\* the test that rejects the deletion of the last board
DeleteRejected(bs) == Len(bs) <= 1

handleDeleteBoard(index) ==
    /\ Invoked
    /\ index \in BoardArgs
    /\ UNCHANGED <<boards, activeBoardIndex, boardHistory, boardHistoryIndex,
                   isRestoringHistory, canUndo, canRedo, isCanvasReady,
                   isInitialLoadRef, canvas, nextId, remote>>
    /\ IF DeleteRejected(boards)
       THEN /\ toast' = {"Cannot delete the last board."}
            /\ outcome' = "delete_rejected"
            /\ UNCHANGED tasks
       ELSE /\ HasFree
            /\ tasks' = Suspend(Task("delete", "delete", activeBoardIndex, index,
                                     EmptySnap, boards, {}))
            /\ toast' = {}
            /\ outcome' = "ok"

\* the handler goes on whatever the answer to the delete is
DeleteNeverStops(ok) == FALSE

\* `if (deleteError) { ...; return; }`
DeleteStops(ok) == ~ok

\* the gateway answers the delete of the row; the index updates are issued
DeleteAnswered(t) ==
    \E ok \in BOOLEAN :
    LET updates == (t.k + 1)..(Len(t.bs) - 1)
    IN  /\ UNCHANGED budget
        /\ t.op = "delete"
        /\ t.pc = "delete"
        /\ remote' = Deleted(remote, t.k, ok)
        /\ IF ~DeleteStops(ok) /\ updates = {}
           THEN DeleteFinish(t)
           ELSE /\ tasks' = IF ~DeleteStops(ok)
                            THEN Resume(t, [t EXCEPT !.pc = "updates", !.pend = updates])
                            ELSE Finish(t)
                /\ toast' = IF ok THEN {} ELSE {"Failed to delete board."}
                /\ outcome' = "ok"
                /\ UNCHANGED <<boards, activeBoardIndex, boardHistory,
                               boardHistoryIndex, isRestoringHistory, canUndo,
                               canRedo, isCanvasReady, isInitialLoadRef, canvas,
                               nextId>>

\* the gateway answers one of the index updates of handleDeleteBoard (the
\* result is not looked at); the handler continues when all are answered
UpdateAnswered(t, i) ==
    \E ok \in BOOLEAN :
        /\ UNCHANGED budget
        /\ t.op = "delete"
        /\ t.pc = "updates"
        /\ i \in t.pend
        /\ remote' = Renumbered(remote, i, ok)
        /\ IF t.pend = {i}
           THEN DeleteFinish(t)
           ELSE /\ tasks' = Resume(t, [t EXCEPT !.pend = t.pend \ {i}])
                /\ toast' = {}
                /\ outcome' = "ok"
                /\ UNCHANGED <<boards, activeBoardIndex, boardHistory,
                               boardHistoryIndex, isRestoringHistory, canUndo,
                               canRedo, isCanvasReady, isInitialLoadRef, canvas,
                               nextId>>

\* ---- handleColorChange / handleSizeChange / handleToolChange ------------------
\* the restores under way are those of the disposed instance
OnDisposed(b) ==
    BagOfAll(LAMBDA t : IF t.pc = "restore" THEN [t EXCEPT !.pc = "restore_old"]
                        ELSE t, b)

\* the effect of Canvas on [brushColor, brushSize, canvasRef] when one of them
\* has changed: the surface instance is disposed, canvasRef.current is a new,
\* empty instance
CanvasRecreated(changed) ==
    /\ canvas' = IF changed THEN 0 ELSE canvas
    /\ tasks' = IF changed THEN OnDisposed(tasks) ELSE tasks

\* the tool after a color was chosen with the eraser left active
ToolAfterColorKept(tool) == tool

\* the tool after a color was chosen
ToolAfterColor(tool) == IF tool = "eraser" THEN "pencil" ELSE tool

handleColorChange(color) ==
    /\ Invoked
    /\ brushColor' = color
    /\ activeTool' = ToolAfterColor(activeTool)
    /\ CanvasRecreated(color # brushColor)
    /\ toast' = {}
    /\ outcome' = "ok"
    /\ UNCHANGED <<brushSize, boards, activeBoardIndex, boardHistory,
                   boardHistoryIndex, isRestoringHistory, canUndo, canRedo,
                   isCanvasReady, isInitialLoadRef, nextId, remote>>

handleSizeChange(size) ==
    /\ Invoked
    /\ brushSize' = size
    /\ CanvasRecreated(size # brushSize)
    /\ toast' = {}
    /\ outcome' = "ok"
    /\ UNCHANGED <<brushColor, activeTool, boards, activeBoardIndex,
                   boardHistory, boardHistoryIndex, isRestoringHistory, canUndo,
                   canRedo, isCanvasReady, isInitialLoadRef, nextId, remote>>

handleToolChange(tool) ==
    /\ Invoked
    /\ activeTool' = tool
    /\ toast' = {}
    /\ outcome' = "ok"
    /\ UNCHANGED <<brushColor, brushSize, boards, activeBoardIndex,
                   boardHistory, boardHistoryIndex, isRestoringHistory, canUndo,
                   canRedo, isCanvasReady, isInitialLoadRef, canvas, nextId,
                   remote, tasks>>

\* the indexes BoardControls passes: those of the boards it renders
ShownBoards == 0..(Len(boards) - 1)

\* a step of the controller that is not a step of the toolbar (nor a render)
ToolsKept == UNCHANGED <<brushColor, brushSize, activeTool>> /\ SessionKept

Next ==
    \/ Draw /\ ToolsKept /\ Observed("capture", 0) /\ Followed("draw", 0)
    \/ handleClearAll /\ ToolsKept /\ Observed("capture", 0) /\ Followed("clear", 0)
    \/ handleUndo /\ ToolsKept /\ Observed("undo", 0) /\ Followed("undo", 0)
    \/ handleRedo /\ ToolsKept /\ Observed("redo", 0) /\ Followed("redo", 0)
    \/ handleCanvasReady /\ ToolsKept /\ Observed("other", 0) /\ Followed("ready", 0)
    \/ handleAddBoard /\ ToolsKept /\ Observed("capture", 0) /\ Followed("add", 0)
    \/ \E index \in ShownBoards :
           /\ handleSwitchBoard(index) /\ ToolsKept
           /\ Observed("capture", 0) /\ Followed("switch", index)
    \/ \E index \in ShownBoards :
           /\ handleDeleteBoard(index) /\ ToolsKept
           /\ Observed("other", 0) /\ Followed("delete", index)
    \/ \E t \in Pending :
           /\ UndoRedoRestored(t) /\ ToolsKept
           /\ Observed("answer", 0) /\ Followed("restored", 0)
    \/ \E t \in Pending :
           /\ PlainRestored(t) /\ ToolsKept
           /\ Observed("answer", 0) /\ Followed("restored", 0)
    \/ \E t \in Pending :
           /\ CaptureSaved(t) /\ ToolsKept
           /\ Observed("answer", 0) /\ Followed("saved", 0)
    \/ \E t \in Pending :
           /\ UndoRedoSaved(t) /\ ToolsKept
           /\ Observed("answer", 0) /\ Followed("saved", 0)
    \/ \E t \in Pending :
           /\ SwitchSaved(t) /\ ToolsKept
           /\ Observed("switch", 0) /\ Followed("saved", 0)
    \/ \E t \in Pending :
           /\ AddSaved(t) /\ ToolsKept
           /\ Observed("answer", 0) /\ Followed("saved", 0)
    \/ \E t \in Pending :
           /\ AddInserted(t) /\ ToolsKept
           /\ Observed("add", 0) /\ Followed("inserted", 0)
    \/ \E t \in Pending :
           /\ LoadSelected(t) /\ ToolsKept
           /\ Observed("load", 0) /\ Followed("selected", 0)
    \/ \E t \in Pending :
           /\ LoadSeeded(t) /\ ToolsKept
           /\ Observed("answer", 0) /\ Followed("inserted", 0)
    \/ \E t \in Pending :
           /\ DeleteAnswered(t) /\ ToolsKept
           /\ Observed("delete", t.k) /\ Followed("deleteAnswered", t.k)
    \/ \E t \in Pending, i \in RemoteIdx :
           /\ UpdateAnswered(t, i) /\ ToolsKept
           /\ Observed("delete", t.k) /\ Followed("updateAnswered", i)

Spec == Init /\ [][Next]_vars

\* ---- the store with the rows of the session tracked ---------------------------
\* the session has m rows when the controller starts, written by an earlier
\* run of it; no other client writes to them
InitTracked ==
    /\ SessionStored
    /\ brushColor = "hsl(0, 0%, 10%)"
    /\ brushSize = 6
    /\ activeTool = "pencil"
    /\ run = NoRun
    /\ boards = <<BoardObj>>
    /\ activeBoardIndex = 0
    /\ boardHistory = <<(<<EmptySnap>>)>>
    /\ boardHistoryIndex = <<0>>
    /\ isRestoringHistory = FALSE
    /\ canUndo = FALSE
    /\ canRedo = FALSE
    /\ isCanvasReady = FALSE
    /\ isInitialLoadRef = TRUE
    /\ canvas = 0
    /\ nextId = 1
    /\ \E m \in 0..MaxRows : remote = InitialRemote(m)
    /\ tasks = EmptyBag
    /\ toast = {}
    /\ outcome = "ok"
    /\ budget = MaxTrackedEvents
    /\ obs = [captures |-> <<0>>, undone |-> <<FALSE>>, trip |-> NoTrip]

SpecTracked == InitTracked /\ [][Next]_vars

\* ---- the controller with its toolbar --------------------------------------------
NextTools ==
    \/ Next
    \/ \E color \in Colors :
           /\ handleColorChange(color) /\ SessionKept
           /\ Observed("other", 0) /\ Followed("color", 0)
    \/ \E size \in Sizes :
           /\ handleSizeChange(size) /\ SessionKept
           /\ Observed("other", 0) /\ Followed("size", 0)
    \/ \E tool \in ToolNames :
           /\ handleToolChange(tool) /\ SessionKept
           /\ Observed("other", 0) /\ Followed("tool", 0)

InitTools ==
    /\ SessionStored
    /\ brushColor = "hsl(0, 0%, 10%)"
    /\ brushSize = 6
    /\ activeTool = "pencil"
    /\ run = NoRun
    /\ boards = <<BoardObj>>
    /\ activeBoardIndex = 0
    /\ boardHistory = <<(<<EmptySnap>>)>>
    /\ boardHistoryIndex = <<0>>
    /\ isRestoringHistory = FALSE
    /\ canUndo = FALSE
    /\ canRedo = FALSE
    /\ isCanvasReady = FALSE
    /\ isInitialLoadRef = TRUE
    /\ canvas = 0
    /\ nextId = 1
    /\ remote = UntrackedRemote
    /\ tasks = EmptyBag
    /\ toast = {}
    /\ outcome = "ok"
    /\ budget = MaxToolEvents
    /\ obs = [captures |-> <<0>>, undone |-> <<FALSE>>, trip |-> NoTrip]

SpecTools == InitTools /\ [][NextTools]_vars

\* ---- handleSwitchBoard / handleDeleteBoard called with any number ----------------
\* indexes that name no board
NoBoard == {-1, Len(boards)}

NextAnyIndex ==
    \/ Next
    \/ \E index \in NoBoard :
           /\ handleSwitchBoard(index) /\ ToolsKept
           /\ Observed("capture", 0) /\ Followed("switch", index)
    \/ \E index \in NoBoard :
           /\ handleDeleteBoard(index) /\ ToolsKept
           /\ Observed("other", 0) /\ Followed("delete", index)

InitAnyIndex ==
    /\ SessionStored
    /\ brushColor = "hsl(0, 0%, 10%)"
    /\ brushSize = 6
    /\ activeTool = "pencil"
    /\ run = NoRun
    /\ boards = <<BoardObj>>
    /\ activeBoardIndex = 0
    /\ boardHistory = <<(<<EmptySnap>>)>>
    /\ boardHistoryIndex = <<0>>
    /\ isRestoringHistory = FALSE
    /\ canUndo = FALSE
    /\ canRedo = FALSE
    /\ isCanvasReady = FALSE
    /\ isInitialLoadRef = TRUE
    /\ canvas = 0
    /\ nextId = 1
    /\ remote = UntrackedRemote
    /\ tasks = EmptyBag
    /\ toast = {}
    /\ outcome = "ok"
    /\ budget = MaxAnyIndexEvents
    /\ obs = [captures |-> <<0>>, undone |-> <<FALSE>>, trip |-> NoTrip]

SpecAnyIndex == InitAnyIndex /\ [][NextAnyIndex]_vars

\* ---- properties ----------------------------------------------------------------
\* the log of board i exists, is non-empty and its cursor points into it
WellFormedLog(i) ==
    /\ HasLog(i)
    /\ Len(LogAt(i)) > 0
    /\ IsNum(IdxAt(i))
    /\ IdxAt(i) < Len(LogAt(i))

\* C1: in every reachable state every board has a non-empty history log whose
\* cursor satisfies 0 <= cursor < entries.length.
C1_EveryLogWellFormed == \A i \in 0..(Len(boards) - 1) : WellFormedLog(i)

\* C2: in every reachable state there is at least one board and
\* 0 <= activeIndex < boards.length.
C2_ActiveIndexInRange == Len(boards) >= 1 /\ InRange(boards, activeBoardIndex)

\* a step in which updateHistoryAndSave is called: a surface-change
\* notification, handleClearAll, and the flush of handleAddBoard and of
\* handleSwitchBoard
IsCapture ==
    \/ Draw
    \/ handleClearAll
    \/ handleAddBoard
    \/ \E index \in ShownBoards :
           index # activeBoardIndex /\ handleSwitchBoard(index)

Range(q) == {q[j] : j \in 1..Len(q)}
UpsertsPending(b) == [t \in {u \in BagToSet(b) : u.pc = "upsert"} |-> b[t]]

\* C3: a capture on the active board with the guard clear turns the log
\* (entries, cursor) into entries[0..cursor] followed by the new snapshot, with
\* cursor' = length(entries') - 1 = cursor + 1 and positions 0..cursor unchanged.
C3_CaptureTruncatesAndAppends ==
    [][LET a == activeBoardIndex
           entries == LogAt(a)
           cursor == IdxAt(a)
       IN  (IsCapture /\ ~isRestoringHistory /\ WellFormedLog(a)) =>
               /\ boardHistory'[a + 1] =
                      Append(SubSeq(entries, 1, cursor + 1), Snap(canvas', nextId))
               /\ boardHistoryIndex'[a + 1] = Len(boardHistory'[a + 1]) - 1
               /\ boardHistoryIndex'[a + 1] = cursor + 1
               /\ \A j \in 1..(cursor + 1) : boardHistory'[a + 1][j] = entries[j]
               /\ \A i \in 0..(Len(boardHistory) - 1) :
                      i # a => /\ boardHistory'[i + 1] = boardHistory[i + 1]
                               /\ boardHistoryIndex'[i + 1] = boardHistoryIndex[i + 1]
      ]_vars

\* a capture has cut the undone entry 1 off the log of the only board and
\* has put snapshot 2 in its place
C3_Witness ==
    /\ ~isCanvasReady
    /\ Len(boardHistory) = 1
    /\ LogAt(0) = <<EmptySnap, Snap(2, 2)>>
    /\ IdxAt(0) = 1
    /\ nextId = 3

\* C4: a surface change captured after an undo discards the entries that were
\* redo-able, canRedo is false right after that capture, and a redo is then a
\* no-op.
C4_CaptureAfterUndoDropsRedo ==
    [][LET a == activeBoardIndex
           entries == LogAt(a)
           cursor == IdxAt(a)
       IN  ((Draw \/ handleClearAll) /\ ~isRestoringHistory /\ WellFormedLog(a)
                 /\ cursor < Len(entries) - 1) =>
               /\ \A j \in (cursor + 2)..Len(entries) :
                      entries[j] \notin Range(boardHistory'[a + 1])
               /\ boardHistoryIndex'[a + 1] = Len(boardHistory'[a + 1]) - 1
               /\ ~canRedo'
               /\ RedoNoop(a)'
      ]_vars

\* two captures, two undos, then a capture: entries 1 and 2 are gone
C4_Witness ==
    /\ ~isCanvasReady
    /\ Len(boardHistory) = 1
    /\ LogAt(0) = <<EmptySnap, Snap(3, 3)>>
    /\ IdxAt(0) = 1
    /\ ~canRedo
    /\ ~isRestoringHistory

\* C5: undo when the active board's cursor is 0 changes nothing: entries and
\* cursor of every log are unchanged, the guard flag is not set, the surface is
\* not restored and no persistence call is issued.
C5_UndoAtZeroIsNoop ==
    [][(handleUndo /\ IdxAt(activeBoardIndex) = 0) =>
           UNCHANGED <<boardHistory, boardHistoryIndex, isRestoringHistory,
                       canvas, tasks, remote, boards, activeBoardIndex>>
      ]_vars

C5_Witness ==
    /\ outcome = "undo_noop"
    /\ IdxAt(activeBoardIndex) = 0
    /\ ~isRestoringHistory
    /\ tasks = EmptyBag

\* C6: redo when the active board's cursor equals entries.length - 1 changes
\* nothing: entries and cursor of every log are unchanged, the guard flag is
\* not set and no restore or persistence call is issued.
C6_RedoAtTailIsNoop ==
    [][LET a == activeBoardIndex
       IN  (handleRedo /\ HasLog(a) /\ IdxAt(a) = Len(LogAt(a)) - 1) =>
               UNCHANGED <<boardHistory, boardHistoryIndex, isRestoringHistory,
                           canvas, tasks, remote, boards, activeBoardIndex>>
      ]_vars

C6_Witness ==
    /\ outcome = "redo_noop"
    /\ HasLog(activeBoardIndex)
    /\ IdxAt(activeBoardIndex) = Len(LogAt(activeBoardIndex)) - 1
    /\ IdxAt(activeBoardIndex) > 0
    /\ ~isRestoringHistory
    /\ tasks = EmptyBag

\* the restore started by an accepted undo / redo on board a: loadFromJSON is
\* called with the entry at the new cursor
RestoreStarted(op, a, entry) ==
    tasks' = tasks (+) SetToBag({Task(op, "restore", a, a, entry, <<>>, {})})

\* the completion callback of the restore of t shows t.snap and issues one
\* upsert of it under the index of the board the undo / redo was applied to
RestoredAndUpsertIssued(t) ==
    /\ canvas' = t.snap.c
    /\ tasks' = Resume(t, Task(t.op, "upsert", t.a, t.a, t.snap, <<>>, {}))

\* C7: undo with cursor > 0 (redo with cursor < entries.length - 1) moves the
\* cursor by exactly -1 (+1), leaves the entries alone, restores the surface
\* from entries[new cursor] and schedules exactly one upsert of entries[new
\* cursor] under the index of the board it was applied to.
C7_UndoRedoMoveRestoreUpsert ==
    [][LET a == activeBoardIndex
           entries == LogAt(a)
           cursor == IdxAt(a)
       IN  /\ (handleUndo /\ WellFormedLog(a) /\ cursor > 0) =>
                  /\ boardHistoryIndex' = [boardHistoryIndex EXCEPT ![a + 1] = cursor - 1]
                  /\ boardHistory' = boardHistory
                  /\ RestoreStarted("undo", a, entries[cursor])
           /\ (handleRedo /\ WellFormedLog(a) /\ cursor < Len(entries) - 1) =>
                  /\ boardHistoryIndex' = [boardHistoryIndex EXCEPT ![a + 1] = cursor + 1]
                  /\ boardHistory' = boardHistory
                  /\ RestoreStarted("redo", a, entries[cursor + 2])
           /\ \A t \in Pending :
                  UndoRedoRestored(t) =>
                      /\ boardHistory' = boardHistory
                      /\ boardHistoryIndex' = boardHistoryIndex
                      /\ RestoredAndUpsertIssued(t)
      ]_vars

\* C8: right after capture(s), undo, redo on one board, the entries and the
\* cursor of its log are what the capture left, and the snapshot the redo
\* restores to the surface is the log element s itself.
C8_RoundTrip ==
    obs.trip.phase = 3 =>
        LET a == obs.trip.a
            s == obs.trip.entries[obs.trip.cursor + 1]
        IN  /\ HasLog(a)
            /\ LogAt(a) = obs.trip.entries
            /\ IdxAt(a) = obs.trip.cursor
            /\ LogAt(a)[IdxAt(a) + 1] = s
            /\ s.id > 0
            /\ \E t \in Pending :
                   /\ t.op = "redo"
                   /\ t.pc = "restore"
                   /\ t.a = a
                   /\ t.snap = s

\* the redo of a round trip on a log of three entries has just been made
C8_Witness ==
    /\ obs.trip.phase = 3
    /\ Len(obs.trip.entries) = 3
    /\ obs.trip.cursor = 2
    /\ IdxAt(obs.trip.a) = 2

\* C9: a log that has never been undone has, after k captures on it, exactly
\* k + 1 entries and cursor = k.
C9_CapturesCounted ==
    \A i \in 0..(Len(boardHistory) - 1) :
        ~obs.undone[i + 1] =>
            /\ Len(LogAt(i)) = obs.captures[i + 1] + 1
            /\ IdxAt(i) = obs.captures[i + 1]

\* three captures on one never-undone log, none on the other
C9_Witness ==
    /\ Len(boardHistory) = 2
    /\ \E i \in 0..1 :
           /\ ~obs.undone[i + 1]
           /\ obs.captures[i + 1] = 3
           /\ Len(LogAt(i)) = 4
           /\ IdxAt(i) = 3
           /\ obs.captures[2 - i] = 0

\* C10: a capture while the guard flag is set changes no log's entries or
\* cursor, issues no upsert and shows no notification about the dropped
\* capture.
C10_CaptureDroppedUnderGuard ==
    [][(IsCapture /\ isRestoringHistory) =>
           /\ UNCHANGED <<boardHistory, boardHistoryIndex>>
           /\ UpsertsPending(tasks') = UpsertsPending(tasks)
           /\ toast' = {}
      ]_vars

\* a surface change was notified during an undo/redo restore and was dropped
C10_Witness ==
    /\ outcome = "capture_dropped"
    /\ isRestoringHistory
    /\ \E t \in Pending : t.op \in {"undo", "redo"}
    /\ canvas = nextId - 1

\* C11: deleteBoard on a board set with exactly one board leaves boards,
\* activeIndex, every history log and cursor and the surface unchanged, issues
\* no gateway call (no delete, no index update) and reports an error.
C11_DeleteLastBoardRejected ==
    [][\A index \in 0..(MaxBoards - 1) :
           (handleDeleteBoard(index) /\ Len(boards) = 1) =>
               /\ UNCHANGED <<boards, activeBoardIndex, boardHistory,
                              boardHistoryIndex, canvas, remote, tasks>>
               /\ toast' = {"Cannot delete the last board."}
      ]_vars

\* the only board, with two entries in its log, was asked to be deleted
C11_Witness ==
    /\ outcome = "delete_rejected"
    /\ Len(boards) = 1
    /\ Len(boardHistory) = 1
    /\ Len(LogAt(0)) = 2
    /\ toast = {"Cannot delete the last board."}
    /\ tasks = EmptyBag

\* the step in which handleDeleteBoard(t.k) runs its part after the gateway
\* calls: the delete was answered without error and no index update is
\* outstanding any more
DeleteCompletes(t) ==
    \/ DeleteAnswered(t) /\ toast' = {} /\ (t.k + 1)..(Len(t.bs) - 1) = {}
    \/ \E i \in RemoteIdx : UpdateAnswered(t, i) /\ t.pend = {i}

\* C12: a successful deleteBoard(k) on n >= 2 boards with active index a
\* yields n - 1 boards whose logs are the old logs with log k removed (order
\* kept), new active index max(0, k - 1) if k = a, a - 1 if k < a, a if k > a,
\* and the surface is then restored from entries[cursor] of the new active
\* board.  n and a are the values the call was made with.
C12_DeleteRemovesBoard ==
    [][\A t \in Pending :
           (DeleteCompletes(t) /\ InRange(t.bs, t.a)) =>
               LET k == t.k
                   n == Len(t.bs)
                   a == t.a
                   newActive == IF k = a THEN Max(0, k - 1)
                                ELSE IF k < a THEN a - 1
                                ELSE a
               IN  /\ n >= 2
                   /\ Len(boards') = n - 1
                   /\ Len(boardHistory') = n - 1
                   /\ Len(boardHistoryIndex') = n - 1
                   /\ boardHistory' = Splice(boardHistory, k)
                   /\ boardHistoryIndex' = Splice(boardHistoryIndex, k)
                   /\ activeBoardIndex' = newActive
                   /\ WellFormedLog(newActive)'
                   /\ tasks' = Resume(t, Task("delete", "restore", 0, 0,
                                  boardHistory'[newActive + 1]
                                      [boardHistoryIndex'[newActive + 1] + 1],
                                  <<>>, {}))
      ]_vars

AddCompletes(t) == AddInserted(t) /\ toast' = {}

\* C14: a successful addBoard on n boards first captures the current surface
\* into the active board's history, then appends one board with log
\* [emptySnapshot] and cursor 0, creates the remote row (ownerKey, n) with the
\* empty snapshot, sets activeIndex = n, the last position of the resulting
\* set, and clears the surface; also when addBoard is invoked again before an
\* earlier addBoard's gateway call has completed.  n is the number of boards
\* the call was made with.
C14_AddBoardAppends ==
    [][/\ LET a == activeBoardIndex
              entries == LogAt(a)
              cursor == IdxAt(a)
          IN  (handleAddBoard /\ ~isRestoringHistory /\ WellFormedLog(a)) =>
                  /\ boardHistory'[a + 1] =
                         Append(SubSeq(entries, 1, cursor + 1), Snap(canvas, nextId))
                  /\ boardHistoryIndex'[a + 1] = cursor + 1
       /\ \A t \in Pending :
              AddCompletes(t) =>
                  LET n == t.k
                  IN  /\ boards' = Append(boards, BoardObj)
                      /\ boardHistory' = Append(boardHistory, <<EmptySnap>>)
                      /\ boardHistoryIndex' = Append(boardHistoryIndex, 0)
                      /\ Tracked(remote) => remote' = [remote EXCEPT ![n] = EmptySnap.c]
                      /\ activeBoardIndex' = n
                      /\ activeBoardIndex' = Len(boards') - 1
                      /\ WellFormedLog(n)'
                      /\ LogAt(n)' = <<EmptySnap>>
                      /\ canvas' = 0
      ]_vars

\* the restore of handleSwitchBoard(target) is started in this step: board
\* `target` is made the active one and loadFromJSON is called with its
\* entries[cursor]
SwitchRestores(target) ==
    /\ activeBoardIndex' = target
    /\ WellFormedLog(target)'
    /\ \E u \in BagToSet(tasks') :
           /\ u = Task("switch", "restore", 0, 0,
                       LogAt(target)'[IdxAt(target)' + 1], <<>>, {})
           /\ tasks'[u] = IF u \in Pending THEN tasks[u] + 1 ELSE 1

\* C15: switchBoard(t) with t = activeIndex changes nothing (no capture, no
\* restore, no gateway call); with t different it captures the current
\* surface into the previously active board's log, sets activeIndex = t and
\* restores the surface from entries[cursor] of board t, leaving the entries
\* and cursor of board t and of every board other than the previously active
\* one unchanged.
C15_SwitchBoard ==
    [][/\ \A t \in 0..(MaxBoards - 1) :
              LET a == activeBoardIndex
                  entries == LogAt(a)
                  cursor == IdxAt(a)
              IN  /\ (handleSwitchBoard(t) /\ t = a) =>
                         UNCHANGED <<boards, activeBoardIndex, boardHistory,
                                     boardHistoryIndex, isRestoringHistory,
                                     canvas, remote, tasks>>
                  /\ (handleSwitchBoard(t) /\ t # a /\ ~isRestoringHistory
                         /\ WellFormedLog(a)) =>
                         /\ boardHistory' = [boardHistory EXCEPT ![a + 1] =
                                Append(SubSeq(entries, 1, cursor + 1),
                                       Snap(canvas, nextId))]
                         /\ boardHistoryIndex' =
                                [boardHistoryIndex EXCEPT ![a + 1] = cursor + 1]
                         /\ ~SaveIssuesUpsert => SwitchRestores(t)
       /\ \A u \in Pending :
              SwitchSaved(u) =>
                  /\ UNCHANGED <<boardHistory, boardHistoryIndex>>
                  /\ SwitchRestores(u.k)
      ]_vars

\* C16: clearActiveBoard empties the surface and records the empty state as a
\* new history entry of the active board (entries grow by one after the
\* truncation at the cursor, the cursor advances), so that an undo issued
\* right after it restores the content the board had before the clear;
\* whenever it is invoked, also while an undo/redo restore is in flight.
C16_ClearIsLogged ==
    [][LET a == activeBoardIndex
           entries == LogAt(a)
           cursor == IdxAt(a)
       IN  (handleClearAll /\ WellFormedLog(a)) =>
               /\ canvas' = 0
               /\ boardHistory'[a + 1] =
                      Append(SubSeq(entries, 1, cursor + 1), Snap(0, nextId))
               /\ boardHistoryIndex'[a + 1] = cursor + 1
               /\ boardHistory'[a + 1][cursor + 1] = entries[cursor + 1]
               /\ ~UndoNoop(a)'
      ]_vars

\* the flush capture of the empty surface made by addBoard(), and the capture
\* of the surface change X, in the scripted run
ScriptFlush == Snap(EmptySnap.c, 1)
ScriptX == Snap(3, 3)

\* C17 as stated: from a single empty board A, addBoard() gives 2 boards with
\* activeIndex = 1; switchBoard(0) gives activeIndex = 0 with the surface
\* restored to A's current entry; one capture(X) on board 0 makes board 0's
\* log exactly [emptySnapshot, X] with cursor = 1; undo() gives cursor = 0,
\* surface = emptySnapshot and canRedo = true; deleteBoard(1) leaves exactly
\* one board, activeIndex = 0 and the remote row of board B deleted.
C17_Scenario ==
    /\ run.script = 2 => Len(boards) = 2 /\ activeBoardIndex = 1
    /\ run.script = 4 =>
           /\ activeBoardIndex = 0
           /\ WellFormedLog(0)
           /\ canvas = LogAt(0)[IdxAt(0) + 1].c
    /\ run.script = 6 =>
           /\ canvas = ScriptX.c
           /\ LogAt(0) = <<EmptySnap, ScriptX>>
           /\ IdxAt(0) = 1
    /\ run.script = 8 =>
           /\ IdxAt(0) = 0
           /\ canvas = EmptySnap.c
           /\ canRedo
    /\ run.script = 10 =>
           /\ Len(boards) = 1
           /\ activeBoardIndex = 0
           /\ run.rowGone = 1

\* C17 with the flush capture of addBoard() counted: the capture of X makes
\* board 0's log [emptySnapshot, F, X] with cursor = 2, F being the snapshot
\* of the empty surface that addBoard() captured; undo() gives cursor = 1,
\* the surface shows F (empty), canRedo and canUndo are true; deleteBoard(1)
\* leaves board A alone with that log, activeIndex = 0 and the row of board B
\* deleted.  The other steps are as stated.
C17_ScenarioWithFlush ==
    /\ run.script = 2 =>
           /\ Len(boards) = 2
           /\ activeBoardIndex = 1
           /\ LogAt(0) = <<EmptySnap, ScriptFlush>>
           /\ LogAt(1) = <<EmptySnap>>
    /\ run.script = 4 =>
           /\ activeBoardIndex = 0
           /\ WellFormedLog(0)
           /\ canvas = LogAt(0)[IdxAt(0) + 1].c
    /\ run.script = 6 =>
           /\ canvas = ScriptX.c
           /\ LogAt(0) = <<EmptySnap, ScriptFlush, ScriptX>>
           /\ IdxAt(0) = 2
    /\ run.script = 8 =>
           /\ LogAt(0) = <<EmptySnap, ScriptFlush, ScriptX>>
           /\ IdxAt(0) = 1
           /\ canvas = ScriptFlush.c
           /\ canRedo
           /\ canUndo
    /\ run.script = 10 =>
           /\ Len(boards) = 1
           /\ Len(boardHistory) = 1
           /\ LogAt(0) = <<EmptySnap, ScriptFlush, ScriptX>>
           /\ IdxAt(0) = 1
           /\ activeBoardIndex = 0
           /\ canvas = ScriptFlush.c
           /\ run.rowGone = 1

\* the scripted run has been made to its end
C17_Witness ==
    /\ run.script = 10
    /\ tasks = EmptyBag
    /\ Len(boards) = 1
    /\ run.rowGone = 1
    /\ budget = 0


\* ---- C18 -----------------------------------------------------------------------
\* no switchBoard, addBoard, deleteBoard, undo, redo or load is in flight: the
\* only handlers suspended at an await are saves of captures
NoneInFlight == \A t \in Pending : t.op \in {"capture", "clear"}

\* C18: in every state in which no board operation, undo, redo or load is in
\* flight, canUndo and canRedo are the values the effect computes from the refs,
\* and for an active board with a log canUndo = (cursor > 0) and
\* canRedo = (cursor < entries.length - 1); so undo is enabled exactly when
\* handleUndo would not return early, and redo exactly when handleRedo would not.
C18_ButtonsDescribeLog ==
    LET a == activeBoardIndex
    IN  NoneInFlight =>
            /\ canUndo = EffCanUndo(boardHistoryIndex, a)
            /\ canRedo = EffCanRedo(boardHistory, boardHistoryIndex, a)
            /\ WellFormedLog(a) =>
                    /\ canUndo = (IdxAt(a) > 0)
                    /\ canRedo = (IdxAt(a) < Len(LogAt(a)) - 1)
                    /\ canUndo = ~UndoNoop(a)
                    /\ canRedo = ~RedoNoop(a)

\* quiescent, in the middle of a log of three entries (both buttons enabled),
\* after an undo and its save have completed
C18_Witness ==
    /\ tasks = EmptyBag
    /\ ~isRestoringHistory
    /\ WellFormedLog(activeBoardIndex)
    /\ Len(LogAt(activeBoardIndex)) = 3
    /\ IdxAt(activeBoardIndex) = 1
    /\ canUndo /\ canRedo

\* ---- C19 -----------------------------------------------------------------------
\* this step is the gateway's answer to the upsert t of a capture, an undo or
\* a redo
SaveAnswered(t) ==
    /\ t.pc = "upsert"
    /\ t.op \in {"capture", "clear", "undo", "redo"}
    /\ CopiesIn(t, tasks') < CopiesIn(t, tasks)

SaveFailedToast == {"Failed to save changes."}

\* C19: the answer to an upsert issued by a capture, an undo or a redo leaves
\* every log, every cursor, boards and activeIndex as they are whether it
\* carries an error or not; an upsert that has not written its row is reported
\* by the toast "Failed to save changes." and leaves the stored rows as they
\* were; no other call is issued in its place (no retry); the guard flag is
\* released after an undo / redo and untouched after a capture, and a surface
\* change notified right after a reported failure is captured as usual.
C19_FailedSaveKeepsState ==
    [][/\ \A t \in Pending :
              SaveAnswered(t) =>
                  /\ UNCHANGED <<boards, activeBoardIndex, boardHistory,
                                 boardHistoryIndex, canUndo, canRedo>>
                  /\ toast' \in {{}, SaveFailedToast}
                  /\ (t.a \in RemoteIdx /\ remote'[t.a] # t.snap.c) =>
                         (toast' = SaveFailedToast /\ remote' = remote)
                  /\ toast' = SaveFailedToast => remote' = remote
                  /\ toast' = {} => remote' = Upserted(remote, t.a, t.snap.c, TRUE)
                  /\ tasks' = Finish(t)
                  /\ outcome' = "ok"
                  /\ isRestoringHistory' =
                         (IF t.op \in {"undo", "redo"} THEN FALSE
                          ELSE isRestoringHistory)
       /\ LET a == activeBoardIndex
          IN  (/\ toast = SaveFailedToast
               /\ canvas' = nextId /\ nextId' = nextId + 1
               /\ ~isRestoringHistory /\ WellFormedLog(a)) =>
                  /\ outcome' = "ok"
                  /\ boardHistory'[a + 1] =
                         Append(SubSeq(LogAt(a), 1, IdxAt(a) + 1), Snap(nextId, nextId))
                  /\ boardHistoryIndex'[a + 1] = IdxAt(a) + 1
      ]_vars

\* the upsert issued by an undo has just failed: the failure is shown, the
\* cursor stays on the undone position, the row still holds what was saved
\* before, nothing is pending and the guard flag is clear
C19_Witness ==
    /\ toast = SaveFailedToast
    /\ tasks = EmptyBag
    /\ ~isRestoringHistory
    /\ WellFormedLog(activeBoardIndex)
    /\ Len(LogAt(activeBoardIndex)) = 2
    /\ IdxAt(activeBoardIndex) = 0
    /\ activeBoardIndex \in RemoteIdx
    /\ remote[activeBoardIndex] # LogAt(activeBoardIndex)[1].c
    /\ remote[activeBoardIndex] = LogAt(activeBoardIndex)[2].c

\* ---- C20 -----------------------------------------------------------------------
\* the calls to the gateway that have not been answered
GatewayCalls(b) ==
    [t \in {u \in BagToSet(b) : u.pc \notin {"restore", "restore_old"}} |-> b[t]]

\* C20: a step that changes the color, the size or the active tool leaves every
\* history log, every cursor, boards, the active index, the guard flag and the
\* stored rows unchanged and issues no gateway call; a step that chooses a
\* color with the eraser active makes the pencil the active tool, and one that
\* chooses a color with another tool active leaves the active tool unchanged.
C20_ToolStateOnly ==
    [][/\ <<brushColor, brushSize, activeTool>>' # <<brushColor, brushSize, activeTool>> =>
              /\ UNCHANGED <<boardHistory, boardHistoryIndex, boards,
                             activeBoardIndex, isRestoringHistory, remote,
                             canUndo, canRedo, isInitialLoadRef>>
              /\ GatewayCalls(tasks') = GatewayCalls(tasks)
              /\ BagCardinality(tasks') = BagCardinality(tasks)
       /\ (brushColor' # brushColor \/ run'.recolored # "none") =>
              /\ activeTool = "eraser" => activeTool' = "pencil"
              /\ activeTool # "eraser" => activeTool' = activeTool
              /\ brushSize' = brushSize
      ]_vars

\* a color has just been chosen with the eraser active, on a board whose log
\* holds a captured surface change: the pencil is the active tool
C20_Witness ==
    /\ run.recolored = "eraser"
    /\ activeTool = "pencil"
    /\ brushColor = "hsl(0, 72%, 51%)"
    /\ WellFormedLog(activeBoardIndex)
    /\ Len(LogAt(activeBoardIndex)) = 2
    /\ IdxAt(activeBoardIndex) = 1

\* ---- C21 -----------------------------------------------------------------------
\* the loadFromJSON of an undo / redo has been started and has not called back
RestoreInFlight(t) == t.op \in {"undo", "redo"} /\ t.pc \in {"restore", "restore_old"}

\* C21: in every reachable state in which the restore of at least one undo /
\* redo has been started and has not completed, the guard flag is set.
C21_GuardCoversRestores ==
    (\E t \in Pending : RestoreInFlight(t)) => isRestoringHistory

\* ---- C22 -----------------------------------------------------------------------
\* C22: an undo or redo invoked while the restore of an earlier undo / redo is
\* pending (guard flag set) changes no cursor, starts no restore and issues no
\* upsert, and leaves nothing behind that would run later.
C22_SecondUndoRedoDropped ==
    [][((handleUndo \/ handleRedo)
        /\ isRestoringHistory
        /\ \E t \in Pending : RestoreInFlight(t)) =>
           UNCHANGED <<boardHistory, boardHistoryIndex, tasks, canvas, remote>>
      ]_vars

\* ---- C23 -----------------------------------------------------------------------
\* the loadFromJSON started by handleSwitchBoard or handleDeleteBoard has not
\* called back
BoardRestoreInFlight(t) ==
    t.op \in {"switch", "delete"} /\ t.pc \in {"restore", "restore_old"}

\* C23: a surface-change notification (or a clear) that arrives between the
\* start of the restore of switchBoard / deleteBoard and its completion
\* callback changes no log and no cursor and issues no upsert.
C23_CapturesSuppressedDuringBoardRestore ==
    [][((Draw \/ handleClearAll) /\ \E t \in Pending : BoardRestoreInFlight(t)) =>
           /\ UNCHANGED <<boardHistory, boardHistoryIndex>>
           /\ UpsertsPending(tasks') = UpsertsPending(tasks)
      ]_vars

\* ---- C24 -----------------------------------------------------------------------
\* C24: in every state in which no restore, gateway call or board operation is
\* in flight, the surface shows entries[cursor] of the board at activeIndex.
C24_SurfaceShowsActiveBoard ==
    (tasks = EmptyBag /\ WellFormedLog(activeBoardIndex)) =>
        canvas = LogAt(activeBoardIndex)[IdxAt(activeBoardIndex) + 1].c

\* ---- C25 -----------------------------------------------------------------------
\* loadData has not been started, or its select has not been answered: the
\* fetched rows (or the seed) are not yet installed as the board set
LoadNotInstalled ==
    isInitialLoadRef \/ \E t \in Pending : t.op = "load" /\ t.pc = "select"

\* C25: from the start of the controller until the initial load has installed
\* the board set, a surface-change notification changes no history log and
\* no cursor and issues no upsert.
C25_NoCaptureBeforeLoad ==
    [][((Draw \/ handleClearAll) /\ LoadNotInstalled) =>
           /\ UNCHANGED <<boardHistory, boardHistoryIndex>>
           /\ UpsertsPending(tasks') = UpsertsPending(tasks)
      ]_vars

\* ---- C26 -----------------------------------------------------------------------
\* this step is the gateway's answer to the select of loadData
SelectAnswered(t) ==
    /\ t.op = "load"
    /\ t.pc = "select"
    /\ CopiesIn(t, tasks') < CopiesIn(t, tasks)

LoadFailedToast == {"Could not restore your session."}

\* C26: when the select of the initial load returns m >= 1 rows, the board set
\* has m boards, board i has the log [snapshot of the row with board index i]
\* and cursor 0; when it returns no rows or fails, the board set is one board
\* with log [emptySnapshot], cursor 0 and activeIndex 0; no exception escapes.
C26_InitialLoadResult ==
    [][\A t \in Pending :
           SelectAnswered(t) =>
               LET m == Cardinality(RowIdx(remote))
               IN  /\ outcome' # "throw"
                   /\ (m >= 1 /\ toast' # LoadFailedToast) =>
                          /\ Len(boards') = m
                          /\ Len(boardHistory') = m
                          /\ Len(boardHistoryIndex') = m
                          /\ \A i \in 0..(m - 1) :
                                 /\ boardHistory'[i + 1] = <<Snap(remote[i], 0)>>
                                 /\ boardHistoryIndex'[i + 1] = 0
                   /\ (m = 0 \/ toast' = LoadFailedToast) =>
                          /\ boards' = <<BoardObj>>
                          /\ boardHistory' = <<(<<EmptySnap>>)>>
                          /\ boardHistoryIndex' = <<0>>
                          /\ activeBoardIndex' = 0
      ]_vars

\* ---- C27 -----------------------------------------------------------------------
\* C27: in every reachable state the number of history logs and the number of
\* cursors both equal boards.length (log i and cursor i are those of board i).
C27_OneLogPerBoard ==
    /\ Len(boardHistory) = Len(boards)
    /\ Len(boardHistoryIndex) = Len(boards)

\* ---- C28 -----------------------------------------------------------------------
\* what a request that is out of range has to leave alone
RequestIgnored ==
    /\ UNCHANGED <<boards, activeBoardIndex, boardHistory, boardHistoryIndex,
                   isRestoringHistory>>
    /\ outcome' # "throw"

\* C28: undo or redo on a board whose log is empty or missing, and
\* switchBoard(t) / deleteBoard(t) with t < 0 or t >= boards.length, leave
\* boards, activeIndex, every log, every cursor and the guard unchanged, in the
\* call and in every continuation of it, and raise no exception.
C28_OutOfRangeIsNoop ==
    [][/\ ((handleUndo \/ handleRedo)
           /\ (~HasLog(activeBoardIndex) \/ LogAt(activeBoardIndex) = <<>>)) =>
              RequestIgnored
       /\ \A index \in NoBoard :
              (handleSwitchBoard(index) \/ handleDeleteBoard(index)) => RequestIgnored
       /\ \A t \in Pending :
              (/\ t.op = "delete"
               /\ t.pc \in {"delete", "updates"}
               /\ ~InRange(t.bs, t.k)
               /\ tasks' # tasks) => RequestIgnored
      ]_vars

\* ---- C29 -----------------------------------------------------------------------
\* the logs and cursors of the boards other than board a are as they were
OthersKept(a) ==
    /\ Len(boardHistory') = Len(boardHistory)
    /\ \A i \in 0..(Len(boardHistory) - 1) :
           i # a => boardHistory'[i + 1] = boardHistory[i + 1]
    /\ \A i \in 0..(Len(boardHistoryIndex) - 1) :
           i # a => boardHistoryIndex'[i + 1] = boardHistoryIndex[i + 1]

AllSaved == ~isInitialLoadRef /\ tasks = EmptyBag /\ run.clean

\* C30: once the initial load is over and all gateway calls have completed
\* without failure, the store holds exactly the rows 0..boards.length-1 and
\* row i holds entries[cursor] of board i.
C30_StoreFollowsLogs ==
    AllSaved =>
        /\ RowIdx(remote) = 0..(Len(boards) - 1)
        /\ \A i \in 0..(Len(boards) - 1) :
               WellFormedLog(i) => remote[i] = LogAt(i)[IdxAt(i) + 1].c

\* ---- the controller with its completions scheduled --------------------------------
\* a step that is no invocation by the UI: the completion callback of a
\* loadFromJSON, or the continuation of a handler when the gateway answers
Answered == Next /\ budget' = budget

InitFair ==
    /\ SessionStored
    /\ brushColor = "hsl(0, 0%, 10%)"
    /\ brushSize = 6
    /\ activeTool = "pencil"
    /\ run = NoRun
    /\ boards = <<BoardObj>>
    /\ activeBoardIndex = 0
    /\ boardHistory = <<(<<EmptySnap>>)>>
    /\ boardHistoryIndex = <<0>>
    /\ isRestoringHistory = FALSE
    /\ canUndo = FALSE
    /\ canRedo = FALSE
    /\ isCanvasReady = FALSE
    /\ isInitialLoadRef = TRUE
    /\ canvas = 0
    /\ nextId = 1
    /\ remote = UntrackedRemote
    /\ tasks = EmptyBag
    /\ toast = {}
    /\ outcome = "ok"
    /\ budget = MaxFairEvents
    /\ obs = [captures |-> <<0>>, undone |-> <<FALSE>>, trip |-> NoTrip]

\* the event loop runs every callback that is due and the gateway answers
\* every call (with a result or an error)
SpecFair == InitFair /\ [][Next]_vars /\ WF_vars(Answered)

\* C31: every undo or redo that sets the guard is followed by a state in
\* which the guard is clear (captures are accepted again), whatever the
\* answer to its upsert
C31_GuardEventuallyCleared == isRestoringHistory ~> ~isRestoringHistory

\* ---- C32 -----------------------------------------------------------------------
\* the answer to the delete of handleDeleteBoard reaches the handler t
DeleteRowAnswered(t) ==
    /\ t.op = "delete"
    /\ t.pc = "delete"
    /\ CopiesIn(t, tasks') < CopiesIn(t, tasks)

DeleteFailedToast == {"Failed to delete board."}

\* C32: when the delete issued by deleteBoard(k) fails (the row is still
\* stored when the answer arrives, or the failure is reported), the handler
\* ends there: "Failed to delete board." is shown, no index update or other
\* call is issued, the stored rows, boards, activeIndex, every log, every
\* cursor, the surface and the guard stay as they are; and a delete that is
\* not reported as failed has removed the row.
C32_FailedDeleteStops ==
    [][\A t \in Pending :
           DeleteRowAnswered(t) =>
               /\ (Tracked(remote) /\ remote'[t.k] # NoRow) => toast' = DeleteFailedToast
               /\ toast' = DeleteFailedToast =>
                      /\ tasks' = Finish(t)
                      /\ GatewayCalls(tasks') = GatewayCalls(tasks) (-) SetToBag({t})
                      /\ remote' = remote
                      /\ outcome' = "ok"
                      /\ UNCHANGED <<boards, activeBoardIndex, boardHistory,
                                     boardHistoryIndex, canUndo, canRedo, canvas,
                                     isRestoringHistory>>
               /\ (Tracked(remote) /\ toast' # DeleteFailedToast) =>
                      remote' = Deleted(remote, t.k, TRUE)
      ]_vars

\* the delete of deleteBoard(0) on two boards with two stored rows has just
\* failed: the failure is shown, nothing is pending, both boards, both logs
\* and both rows are there
C32_Witness ==
    /\ toast = DeleteFailedToast
    /\ tasks = EmptyBag
    /\ Len(boards) = 2
    /\ Len(boardHistory) = 2
    /\ Len(boardHistoryIndex) = 2
    /\ RowIdx(remote) = {0, 1}
    /\ outcome = "ok"

\* ---- C33 -----------------------------------------------------------------------
\* the answer to the insert of handleAddBoard reaches the handler t
InsertAnswered(t) ==
    /\ t.op = "add"
    /\ t.pc = "insert"
    /\ CopiesIn(t, tasks') < CopiesIn(t, tasks)

AddFailedToast == {"Failed to add new board."}

\* C33: when the insert issued by addBoard fails (no row has been stored
\* when the answer arrives, or the failure is reported), "Failed to add new
\* board." is shown and the handler ends: boards, activeIndex, every log,
\* every cursor, the surface, the guard and the stored rows stay as they are
\* and no call is issued; an insert that is not reported as failed has
\* stored the row.  The call of addBoard itself changes no log but the one
\* of the active board, by the flush capture, and neither activeIndex, the
\* number of logs nor the surface.
C33_FailedInsertAddsNoBoard ==
    [][/\ \A t \in Pending :
              InsertAnswered(t) =>
                  /\ (Tracked(remote) /\ remote' = remote) => toast' = AddFailedToast
                  /\ toast' = AddFailedToast =>
                         /\ tasks' = Finish(t)
                         /\ remote' = remote
                         /\ outcome' = "ok"
                         /\ UNCHANGED <<boards, activeBoardIndex, boardHistory,
                                        boardHistoryIndex, canUndo, canRedo,
                                        canvas, isRestoringHistory>>
                  /\ (Tracked(remote) /\ toast' # AddFailedToast) =>
                         /\ remote' = Inserted(remote, t.k, TRUE)
                         /\ remote' # remote
       /\ handleAddBoard =>
              /\ UNCHANGED <<activeBoardIndex, canvas, remote>>
              /\ Len(boardHistory') = Len(boardHistory)
              /\ \A i \in 0..(Len(boardHistory) - 1) :
                     i # activeBoardIndex => boardHistory'[i + 1] = LogAt(i)
              /\ boardHistory' # boardHistory =>
                     /\ HasLog(activeBoardIndex)
                     /\ boardHistory'[activeBoardIndex + 1] =
                            TruncateAppend(LogAt(activeBoardIndex),
                                           IdxAt(activeBoardIndex),
                                           Snap(canvas, nextId))
      ]_vars

\* the insert of an addBoard called on one board with one stored row has just
\* failed: the failure is shown, nothing is pending, there is still one board
\* and one row, and the log of the board holds the flush capture
C33_Witness ==
    /\ toast = AddFailedToast
    /\ tasks = EmptyBag
    /\ Len(boards) = 1
    /\ Len(boardHistory) = 1
    /\ Len(LogAt(0)) = 2
    /\ IdxAt(0) = 1
    /\ activeBoardIndex = 0
    /\ RowIdx(remote) = {0}

\* ---- C34 -----------------------------------------------------------------------
\* the answer to an upsert reaches the handler t
UpsertAnswered(t) ==
    /\ t.pc = "upsert"
    /\ CopiesIn(t, tasks') < CopiesIn(t, tasks)

\* the rows written before the controller started
StoredBefore(r) == {i \in RowIdx(r) : r[i] >= OldContent(0)}

\* C34: once the select of the initial load has failed, no upsert issued
\* afterwards by the session changes a row that was stored before the
\* controller started.
C34_FailedLoadKeepsRows ==
    [][\A t \in Pending :
           (run.loadFailed /\ UpsertAnswered(t)) =>
               \A i \in StoredBefore(remote) : remote'[i] = remote[i]
      ]_vars

\* ---- C35 -----------------------------------------------------------------------
\* a step in which the brush color or the brush size has changed
BrushChanged == brushColor' # brushColor \/ brushSize' # brushSize

\* C35: a step that changes the brush color or the brush size leaves the
\* content of the surface as it is; when the surface showed entries[cursor]
\* of the active board before the step, it still does after it.
C35_BrushChangeKeepsSurface ==
    [][BrushChanged =>
           LET a == activeBoardIndex
           IN  /\ canvas' = canvas
               /\ (WellFormedLog(a) /\ canvas = LogAt(a)[IdxAt(a) + 1].c) =>
                      canvas' = boardHistory'[a + 1][boardHistoryIndex'[a + 1] + 1].c
      ]_vars

\* ---- the controller and its session identifier ---------------------------------
\* useRef(initialValue) on a render after the first: the ref object of the
\* first render is returned, initialValue is ignored
UseRef(current, initialValue) == current

\* a render of Whiteboard after the first: `useRef(getSessionId())` calls
\* getSessionId again
Rerendered ==
    LET got == GetSessionId(sessionStore, lastSessionId + 1)
    IN  /\ got.id <= MaxUuid
        /\ lastSessionId' = got.id
        /\ sessionStore' = got.store
        /\ sessionIdRef' = UseRef(sessionIdRef, got.id)
        /\ toast' = {}
        /\ outcome' = "rendered"
        /\ UNCHANGED <<boards, activeBoardIndex, boardHistory, boardHistoryIndex,
                       isRestoringHistory, canUndo, canRedo, isCanvasReady,
                       isInitialLoadRef, canvas, nextId, remote, tasks, budget,
                       brushColor, brushSize, activeTool>>

NextSession ==
    \/ Next
    \/ Rerendered /\ Observed("answer", 0) /\ Followed("rendered", 0)

\* the first render: getSessionId is called on what localStorage holds
InitSession ==
    /\ \E store \in {Unavailable, NoneStored, StoredId} :
           LET got == GetSessionId(store, FirstUuid)
           IN  /\ sessionStore = got.store
               /\ sessionIdRef = got.id
               /\ lastSessionId = got.id
    /\ brushColor = "hsl(0, 0%, 10%)"
    /\ brushSize = 6
    /\ activeTool = "pencil"
    /\ run = NoRun
    /\ boards = <<BoardObj>>
    /\ activeBoardIndex = 0
    /\ boardHistory = <<(<<EmptySnap>>)>>
    /\ boardHistoryIndex = <<0>>
    /\ isRestoringHistory = FALSE
    /\ canUndo = FALSE
    /\ canRedo = FALSE
    /\ isCanvasReady = FALSE
    /\ isInitialLoadRef = TRUE
    /\ canvas = 0
    /\ nextId = 1
    /\ remote = UntrackedRemote
    /\ tasks = EmptyBag
    /\ toast = {}
    /\ outcome = "ok"
    /\ budget = MaxSessionEvents
    /\ obs = [captures |-> <<0>>, undone |-> <<FALSE>>, trip |-> NoTrip]

SpecSession == InitSession /\ [][NextSession]_vars

\* C36: the ownership key never changes and every gateway call that is
\* pending (select, insert, upsert, delete, index update) was issued with it;
\* when localStorage is accessible, every call of getSessionId returns the
\* key and leaves the stored identifier, which is the key, as it is.
C36_KeyIsFixed ==
    [][/\ sessionIdRef' = sessionIdRef
       /\ \A t \in BagToSet(GatewayCalls(tasks')) : t.key = sessionIdRef
       /\ sessionStore # Unavailable =>
              /\ sessionStore = sessionIdRef
              /\ lastSessionId = sessionIdRef
              /\ sessionStore' = sessionStore
              /\ lastSessionId' = lastSessionId
      ]_vars

\* Whiteboard has just been rendered again, localStorage holds the identifier
\* created by the first render, which is the key, and an upsert issued with
\* the key is pending
C36_Witness ==
    /\ outcome = "rendered"
    /\ sessionStore = FirstUuid
    /\ sessionIdRef = FirstUuid
    /\ lastSessionId = FirstUuid
    /\ \E t \in Pending : t.pc = "upsert" /\ t.key = sessionIdRef
====
